---- MODULE Spec2Model ----
(***************************************************************************)
(* Gumbel bivariate copula (copulas/bivariate/gumbel.py) and the Gaussian  *)
(* univariate marginal (copulas/univariate/gaussian.py).                   *)
(*                                                                         *)
(* Numbers.  A Python float is modelled by an exact rational, the record   *)
(* [n |-> numerator, d |-> denominator] in lowest terms with d > 0.  The   *)
(* transcendental numpy primitives (np.log, np.exp, np.power) and the      *)
(* square root inside np.std have no rational value: an application of one *)
(* of them is the term [op |-> name, args |-> <<...>>], built exactly in   *)
(* the order the source builds it.  Python's None is the record None.      *)
(* Every scalar is a record, an array is a sequence of scalars.            *)
(*                                                                         *)
(* A call's outcome is [kind, val, err, ops]: kind "ok" with the returned  *)
(* value, or kind "err" with the exception's class; ops counts the numpy   *)
(* array computations performed before the return or the raise.            *)
(***************************************************************************)
EXTENDS Integers, Sequences, FiniteSets, TLC

VARIABLES fitted, tau, theta, call, result, name, mean, std

vars == <<fitted, tau, theta, call, result, name, mean, std>>
gumbelVars == <<fitted, tau, theta>>
gaussianVars == <<name, mean, std>>

(* ---------------------------------------------------------------- bounds *)

\* longest array passed to a Gumbel operation
MaxLen == 2
\* Kendall's tau is drawn from the grid k/TauDen, k in -TauDen..TauDen
TauDen == 2
\* longest dataset passed to GaussianUnivariate.fit
MaxData == 2
\* observations of a dataset are drawn from 0..MaxVal
MaxVal == 2

(* -------------------------------------------------------------- rationals *)

Abs(x) == IF x < 0 THEN -x ELSE x

RECURSIVE GCD(_, _)
GCD(a, b) == IF b = 0 THEN a ELSE GCD(b, a % b)

Q(n, d) ==
    LET g == GCD(Abs(n), Abs(d))
        s == IF d < 0 THEN -1 ELSE 1
    IN [n |-> (s * n) \div g, d |-> (s * d) \div g]

Zero == Q(0, 1)
One == Q(1, 1)
Half == Q(1, 2)
None == [none |-> TRUE]

IsNum(x) == "n" \in DOMAIN x
RLt(a, b) == a.n * b.d < b.n * a.d
RLe(a, b) == a.n * b.d <= b.n * a.d
RAdd(a, b) == Q(a.n * b.d + b.n * a.d, a.d * b.d)
RSub(a, b) == Q(a.n * b.d - b.n * a.d, a.d * b.d)
RMul(a, b) == Q(a.n * b.n, a.d * b.d)
RDiv(a, b) == Q(a.n * b.d, a.d * b.n)

(* ------------------------------------------------ numpy scalar primitives *)

Term(f, as) == [op |-> f, args |-> as]
Mul(a, b) == IF IsNum(a) /\ IsNum(b) THEN RMul(a, b) ELSE Term("multiply", <<a, b>>)
Add(a, b) == IF IsNum(a) /\ IsNum(b) THEN RAdd(a, b) ELSE Term("add", <<a, b>>)
Sub(a, b) == IF IsNum(a) /\ IsNum(b) THEN RSub(a, b) ELSE Term("subtract", <<a, b>>)
Div(a, b) ==
    IF IsNum(a) /\ IsNum(b) /\ b.n # 0 THEN RDiv(a, b) ELSE Term("divide", <<a, b>>)
Neg(a) == IF IsNum(a) THEN RSub(Zero, a) ELSE Term("negative", <<a>>)
Log(a) == Term("log", <<a>>)
Exp(a) == Term("exp", <<a>>)
Power(a, p) == Term("power", <<a, p>>)

Ok(v, k) == [kind |-> "ok", val |-> v, err |-> "", ops |-> k]
Err(e, k) == [kind |-> "err", val |-> None, err |-> e, ops |-> k]

Min(a, b) == IF a < b THEN a ELSE b

\* the array f[1], ..., f[n]
RECURSIVE Tup(_, _)
Tup(f, n) == IF n = 0 THEN <<>> ELSE Append(Tup(f, n - 1), f[n])

\* the arrays of n elements of S
RECURSIVE SeqsOf(_, _)
SeqsOf(S, n) ==
    IF n = 0 THEN {<<>>} ELSE {Append(a, x) : a \in SeqsOf(S, n - 1), x \in S}

(* ------------------------------------------------------------ input sets *)

\* pseudo-uniform observations and conditional probabilities: the closed
\* unit interval's end points and two interior points
Grid == {Zero, Q(1, 4), Half, One}
ArraysOfLen == [n \in 0..MaxLen |-> SeqsOf(Grid, n)]
Arrays == UNION {ArraysOfLen[n] : n \in 0..MaxLen}
\* Kendall's tau in [-1, 1]
TauValues == {Q(k, TauDen) : k \in (-TauDen)..TauDen} \cup {Half}
\* what theta may hold before fit ("theta undefined")
UnfitTheta == {None, Half, One, Q(2, 1)}

(* ------------------------------------------------------------- the Gumbel *)

\* copulas.EPSILON, the lower end of the solver's search interval
EPSILON == Q(1, 8388608)

\* Bivariate.check_fit: the model-not-fit error unless fit has completed
check_fit(self) ==
    IF ~self.fitted THEN Err("NotFittedError", 0) ELSE Ok(None, 0)

\* a plausible slip: theta = 1 - tau, the reciprocal forgotten
get_theta_noreciprocal(self) ==
    IF ~IsNum(self.tau) THEN Err("TypeError", 0)
    ELSE IF self.tau = One THEN Ok(Q(10000, 1), 0)
    ELSE Ok(RSub(One, self.tau), 0)

\* a plausible slip: the tau == 1 guard left out
get_theta_noguard(self) ==
    IF ~IsNum(self.tau) THEN Err("TypeError", 0)
    ELSE IF RSub(One, self.tau) = Zero THEN Err("ZeroDivisionError", 0)
    ELSE Ok(RDiv(One, RSub(One, self.tau)), 0)

\* Gumbel.get_theta
get_theta(self) ==
    IF self.tau = One THEN Ok(Q(10000, 1), 0)
    ELSE IF ~IsNum(self.tau) THEN Err("TypeError", 0)
    ELSE IF RSub(One, self.tau) = Zero THEN Err("ZeroDivisionError", 0)
    ELSE Ok(RDiv(One, RSub(One, self.tau)), 0)

\* one element of lines 55-57
cdf_elem(th, u, v) ==
    LET h0 == Add(Power(Neg(Log(u)), th), Power(Neg(Log(v)), th))
        h == Neg(Power(h0, RDiv(One, th)))
    IN Exp(h)

\* a plausible slip: the domain test copied from a family whose bound is 0
cumulative_density_bound0(self, U, V) ==
    LET cf == check_fit(self) IN
    IF cf.kind = "err" THEN cf
    ELSE IF RLt(self.theta, Zero) THEN Err("ValueError", 0)
    ELSE IF self.theta = One THEN Ok(Tup([i \in 1..Len(U) |-> Mul(U[i], V[i])], Len(U)), 1)
    ELSE Ok(Tup([i \in 1..Len(U) |-> cdf_elem(self.theta, U[i], V[i])], Len(U)), 6)

\* Gumbel.cumulative_density
cumulative_density(self, U, V) ==
    LET cf == check_fit(self) IN
    IF cf.kind = "err" THEN cf
    ELSE IF RLt(self.theta, One) THEN Err("ValueError", 0)
    ELSE IF self.theta = One THEN Ok(Tup([i \in 1..Len(U) |-> Mul(U[i], V[i])], Len(U)), 1)
    ELSE Ok(Tup([i \in 1..Len(U) |-> cdf_elem(self.theta, U[i], V[i])], Len(U)), 6)

\* one element of lines 29-34, p1 being the element of cumulative_density
pdf_elem(th, u, v, p1) ==
    LET a == Power(Mul(u, v), Q(-1, 1))
        tmp == Add(Power(Neg(Log(u)), th), Power(Neg(Log(v)), th))
        b == Power(tmp, RAdd(Q(-2, 1), RDiv(Q(2, 1), th)))
        c == Power(Mul(Log(u), Log(v)), RSub(th, One))
        d == Add(One, Mul(RSub(th, One), Power(tmp, RDiv(Q(-1, 1), th))))
    IN Mul(Mul(Mul(Mul(p1, a), b), c), d)

\* Gumbel.probability_density
probability_density(self, U, V) ==
    LET cf == check_fit(self) IN
    IF cf.kind = "err" THEN cf
    ELSE IF RLt(self.theta, One) THEN Err("ValueError", 0)
    ELSE IF self.theta = One THEN Ok(Tup([i \in 1..Len(U) |-> Mul(U[i], V[i])], Len(U)), 1)
    ELSE LET p1 == cumulative_density(self, U, V) IN
         IF p1.kind = "err" THEN Err(p1.err, 12 + p1.ops)
         ELSE Ok(Tup([i \in 1..Len(U) |->
                         pdf_elem(self.theta, U[i], V[i], p1.val[i])], Len(U)),
                 12 + p1.ops)

\* one element of lines 93-98
pd_elem(th, u, v, y, p1) ==
    LET t1 == Power(Neg(Log(u)), th)
        t2 == Power(Neg(Log(v)), th)
        p2 == Power(Add(t1, t2), RAdd(Q(-1, 1), RDiv(One, th)))
        p3 == Power(Neg(Log(v)), RSub(th, One))
    IN Sub(Div(Mul(Mul(p1, p2), p3), v), y)

\* Gumbel.partial_derivative
partial_derivative(self, U, V, y) ==
    LET cf == check_fit(self) IN
    IF cf.kind = "err" THEN cf
    ELSE IF self.theta = One THEN Ok(V, 0)
    ELSE LET p1 == cumulative_density(self, U, V) IN
         IF p1.kind = "err" THEN Err(p1.err, 4 + p1.ops)
         ELSE Ok(Tup([i \in 1..Len(U) |->
                         pd_elem(self.theta, U[i], V[i], y, p1.val[i])], Len(U)),
                 4 + p1.ops + 6)

\* scipy.optimize.fminbound(self.partial_derivative, x1, x2, args=(y, V)):
\* the objective is evaluated first at an interior point of [x1, x2]; an
\* exception it raises reaches the caller, otherwise the minimiser found in
\* [x1, x2] is returned
fminbound(self, x1, x2, y, V) ==
    LET x0 == Term("interior", <<x1, x2>>)
        f0 == partial_derivative(self, <<x0>>, <<V>>, y)
    IN IF f0.kind = "err" THEN Err(f0.err, f0.ops)
       ELSE Ok(Term("fminbound", <<x1, x2, y, V, self.theta>>), f0.ops)

\* a plausible slip: the theta == 1 branch returns V, as partial_derivative does
percent_point_returnsV(self, y, V) ==
    LET cf == check_fit(self) IN
    IF cf.kind = "err" THEN cf
    ELSE IF self.theta = One THEN Ok(V, 0)
    ELSE fminbound(self, EPSILON, One, y, V)

\* Gumbel.percent_point
percent_point(self, y, V) ==
    LET cf == check_fit(self) IN
    IF cf.kind = "err" THEN cf
    ELSE IF self.theta = One THEN Ok(y, 0)
    ELSE fminbound(self, EPSILON, One, y, V)

\* the loop of Gumbel._sample over zip(v, c), u being the array built so far
RECURSIVE sample_loop(_, _, _, _, _)
sample_loop(self, v, c, i, u) ==
    IF i > Min(Len(v), Len(c)) THEN Ok(u, i - 1)
    ELSE LET p == percent_point(self, v[i], c[i]) IN
         IF p.kind = "err" THEN Err(p.err, i - 1)
         ELSE sample_loop(self, v, c, i + 1, Append(u, p.val))

\* Gumbel._sample
_sample(self, v, c) == sample_loop(self, v, c, 1, <<>>)


(* ------------------------------------------------- the Gaussian marginal *)

DataVals == {Q(k, 1) : k \in 0..MaxVal}
Datasets == UNION {SeqsOf(DataVals, n) : n \in 0..MaxData}
\* X.name of a pandas Series; None for a plain array
Names == {None, [str |-> "x"]}

RECURSIVE SumSeq(_)
SumSeq(X) == IF Len(X) = 0 THEN Zero ELSE RAdd(Head(X), SumSeq(Tail(X)))

np_mean(X) == RDiv(SumSeq(X), Q(Len(X), 1))

IsSquare(k) == \E r \in 0..k : r * r = k
Root(k) == CHOOSE r \in 0..k : r * r = k
Sqrt(q) ==
    IF IsSquare(q.n) /\ IsSquare(q.d) THEN Q(Root(q.n), Root(q.d))
    ELSE Term("sqrt", <<q>>)

\* the population standard deviation: sqrt(mean(|x - mean(x)|^2))
np_std(X) ==
    LET m == np_mean(X)
        dev == Tup([i \in 1..Len(X) |-> RMul(RSub(X[i], m), RSub(X[i], m))], Len(X))
    IN Sqrt(np_mean(dev))

\* a plausible slip: name assigned before the emptiness test
gaussian_fit_namefirst(g, X, nm) ==
    IF Len(X) = 0
    THEN [out |-> Err("ValueError", 0), st |-> [g EXCEPT !.name = nm]]
    ELSE [out |-> Ok(None, 2),
          st |-> [name |-> nm, mean |-> np_mean(X),
                  std |-> IF np_std(X) = Zero THEN Q(1, 1000) ELSE np_std(X)]]

\* a plausible slip: the "or 0.001" fallback left out
gaussian_fit_nofallback(g, X, nm) ==
    IF Len(X) = 0
    THEN [out |-> Err("ValueError", 0), st |-> g]
    ELSE [out |-> Ok(None, 2),
          st |-> [name |-> nm, mean |-> np_mean(X), std |-> np_std(X)]]

\* GaussianUnivariate.fit on the model g = [name, mean, std]: the outcome
\* and the model afterwards
gaussian_fit(g, X, nm) ==
    IF Len(X) = 0
    THEN [out |-> Err("ValueError", 0), st |-> g]
    ELSE [out |-> Ok(None, 2),
          st |-> [name |-> nm, mean |-> np_mean(X),
                  std |-> IF np_std(X) = Zero THEN Q(1, 1000) ELSE np_std(X)]]

\* norm.pdf / norm.cdf / norm.ppf at loc = mean, scale = std, elementwise
gaussian_eval(f, g, X) ==
    Ok(Tup([i \in 1..Len(X) |-> Term(f, <<X[i], g.mean, g.std>>)], Len(X)), 1)

\* np.random.normal(mean, std, num_samples): the i-th variate of the draw
gaussian_sample(g, k) ==
    Ok(Tup([i \in 1..k |-> Term("random.normal", <<g.mean, g.std, Q(i, 1)>>)], k), 1)

(* ------------------------------------------------------------------ state *)

\* the caller is between two calls (the computation is single-threaded and
\* synchronous: a call has returned or raised before the next one starts)
Idle == [op |-> "idle"]

Self == [fitted |-> fitted, tau |-> tau, theta |-> theta]
G == [name |-> name, mean |-> mean, std |-> std]

\* Bivariate.__init__ leaves the copula unfit; GaussianUnivariate.__init__
\* sets name = None, mean = 0, std = 1
Init ==
    /\ fitted = FALSE
    /\ tau = None
    /\ theta \in UnfitTheta
    /\ call = Idle
    /\ result = Ok(None, 0)
    /\ name = None
    /\ mean = Zero
    /\ std = One

(* ------------------------------------------------------- Gumbel operations *)

\* Bivariate.fit: tau is set, theta derived from it with get_theta
Fit ==
    /\ call = Idle
    /\ \E t \in TauValues :
        LET th == get_theta([Self EXCEPT !.tau = t]) IN
        /\ tau' = t
        /\ theta' = IF th.kind = "ok" THEN th.val ELSE theta
        /\ fitted' = IF th.kind = "ok" THEN TRUE ELSE fitted
        /\ call' = [op |-> "fit", tau |-> t]
        /\ result' = IF th.kind = "ok" THEN Ok(None, 0) ELSE th
        /\ UNCHANGED gaussianVars

GetTheta ==
    /\ call = Idle
    /\ call' = [op |-> "get_theta"]
    /\ result' = get_theta(Self)
    /\ UNCHANGED <<gumbelVars, gaussianVars>>

\* a plausible slip: an out-of-domain theta repaired in place by the call
CumulativeDensityRepairs ==
    /\ call = Idle
    /\ \E n \in 0..MaxLen : \E U \in ArraysOfLen[n], V \in ArraysOfLen[n] :
        /\ call' = [op |-> "cumulative_density", U |-> U, V |-> V]
        /\ result' = cumulative_density(Self, U, V)
        /\ theta' = IF fitted /\ RLt(theta, One) THEN One ELSE theta
        /\ UNCHANGED <<fitted, tau, gaussianVars>>

CumulativeDensity ==
    /\ call = Idle
    /\ \E n \in 0..MaxLen : \E U \in ArraysOfLen[n], V \in ArraysOfLen[n] :
        /\ call' = [op |-> "cumulative_density", U |-> U, V |-> V]
        /\ result' = cumulative_density(Self, U, V)
        /\ UNCHANGED <<gumbelVars, gaussianVars>>

ProbabilityDensity ==
    /\ call = Idle
    /\ \E n \in 0..MaxLen : \E U \in ArraysOfLen[n], V \in ArraysOfLen[n] :
        /\ call' = [op |-> "probability_density", U |-> U, V |-> V]
        /\ result' = probability_density(Self, U, V)
        /\ UNCHANGED <<gumbelVars, gaussianVars>>

PartialDerivative ==
    /\ call = Idle
    /\ \E n \in 0..MaxLen : \E U \in ArraysOfLen[n], V \in ArraysOfLen[n], y \in Grid :
        /\ call' = [op |-> "partial_derivative", U |-> U, V |-> V, y |-> y]
        /\ result' = partial_derivative(Self, U, V, y)
        /\ UNCHANGED <<gumbelVars, gaussianVars>>

PercentPoint ==
    /\ call = Idle
    /\ \E y \in Grid, V \in Grid :
        /\ call' = [op |-> "percent_point", y |-> y, V |-> V]
        /\ result' = percent_point(Self, y, V)
        /\ UNCHANGED <<gumbelVars, gaussianVars>>

Sample ==
    /\ call = Idle
    /\ \E v \in Arrays, c \in Arrays :
        /\ call' = [op |-> "sample", v |-> v, c |-> c]
        /\ result' = _sample(Self, v, c)
        /\ UNCHANGED <<gumbelVars, gaussianVars>>

\* the call's outcome has reached the caller
Return ==
    /\ call # Idle
    /\ call' = Idle
    /\ result' = Ok(None, 0)
    /\ UNCHANGED <<gumbelVars, gaussianVars>>

Next ==
    \/ PercentPoint
    \/ PartialDerivative
    \/ Sample
    \/ CumulativeDensity
    \/ ProbabilityDensity
    \/ GetTheta
    \/ Fit
    \/ Return

Spec == Init /\ [][Next]_vars

(* ----------------------------------------------------- Gaussian operations *)

GaussianFit ==
    /\ call = Idle
    /\ \E X \in Datasets, nm \in Names :
        LET r == gaussian_fit(G, X, nm) IN
        /\ call' = [op |-> "gaussian.fit", X |-> X, name |-> nm]
        /\ result' = r.out
        /\ name' = r.st.name
        /\ mean' = r.st.mean
        /\ std' = r.st.std
        /\ UNCHANGED gumbelVars

GaussianProbabilityDensity ==
    /\ call = Idle
    /\ \E X \in Datasets :
        /\ call' = [op |-> "gaussian.probability_density", X |-> X]
        /\ result' = gaussian_eval("norm.pdf", G, X)
        /\ UNCHANGED <<gumbelVars, gaussianVars>>

GaussianCumulativeDensity ==
    /\ call = Idle
    /\ \E X \in Datasets :
        /\ call' = [op |-> "gaussian.cumulative_density", X |-> X]
        /\ result' = gaussian_eval("norm.cdf", G, X)
        /\ UNCHANGED <<gumbelVars, gaussianVars>>

GaussianPercentPoint ==
    /\ call = Idle
    /\ \E X \in Arrays :
        /\ call' = [op |-> "gaussian.percent_point", X |-> X]
        /\ result' = gaussian_eval("norm.ppf", G, X)
        /\ UNCHANGED <<gumbelVars, gaussianVars>>

GaussianSample ==
    /\ call = Idle
    /\ \E k \in 0..MaxData :
        /\ call' = [op |-> "gaussian.sample", num_samples |-> k]
        /\ result' = gaussian_sample(G, k)
        /\ UNCHANGED <<gumbelVars, gaussianVars>>

NextGaussian ==
    \/ GaussianProbabilityDensity
    \/ GaussianCumulativeDensity
    \/ GaussianPercentPoint
    \/ GaussianSample
    \/ GaussianFit
    \/ Return

SpecGaussian == Init /\ [][NextGaussian]_vars


(* ----------------------------------------------------------- properties *)

EvalOps ==
    {"cumulative_density", "probability_density", "partial_derivative",
     "percent_point", "sample"}

RaisedError(e) == result.kind = "err" /\ result.err = e

\* C1: on a Gumbel model that has not been fit, cumulative_density,
\* probability_density, partial_derivative, percent_point and sample each
\* fail with the model-not-fit error, for every input and every theta.
C1_UnfitCallRaisesNotFitted ==
    (~fitted /\ call.op \in EvalOps) => RaisedError("NotFittedError")

\* what sample(v, c) returns according to C2: element i is percent_point(c_i, v_i)
C2_Claimed(v, c) == Tup([i \in 1..Len(v) |-> percent_point(Self, c[i], v[i]).val], Len(v))

\* C2: on a fitted model, sample(v, c) on two equal-length arrays returns an
\* array of the same length whose element i equals percent_point(c_i, v_i)
\* (c_i as y, v_i as the conditioning value), in input order.
C2_SampleElementIsPercentPointOfCV ==
    (/\ fitted
     /\ call.op = "sample"
     /\ Len(call.v) = Len(call.c)
     /\ \A i \in 1..Len(call.v) : percent_point(Self, call.c[i], call.v[i]).kind = "ok")
    => (/\ result.kind = "ok"
        /\ Len(result.val) = Len(call.v)
        /\ result.val = C2_Claimed(call.v, call.c))

DensityOps == {"cumulative_density", "probability_density", "partial_derivative"}

\* C3 as stated: for every tau in [-1, 1], after fit has derived theta with
\* get_theta, theta >= 1 and cumulative_density, probability_density and
\* partial_derivative never fail with the invalid-parameter-domain error.
C3_ThetaInDomainForEveryTau ==
    (fitted /\ RLe(Q(-1, 1), tau) /\ RLe(tau, One))
    => (/\ RLe(One, theta)
        /\ (call.op \in DensityOps => ~RaisedError("ValueError")))

\* C3 amended: the same for every tau in [0, 1]; a negative tau gives
\* theta = 1/(1 - tau) < 1, on which the three operations raise.
C3_ThetaInDomainForNonNegativeTau ==
    (fitted /\ RLe(Zero, tau) /\ RLe(tau, One))
    => (/\ RLe(One, theta)
        /\ (call.op \in DensityOps => result.kind = "ok"))

C3_Witness ==
    /\ fitted
    /\ RLt(Zero, tau)
    /\ RLt(tau, One)
    /\ call.op = "cumulative_density"
    /\ Len(call.U) > 0
    /\ result.kind = "ok"

\* C4: on a fitted model with theta < 1, cumulative_density and
\* probability_density raise the invalid-parameter-domain error for every
\* input, before any array computation on U or V.
C4_DomainErrorBeforeArrayWork ==
    (/\ fitted
     /\ RLt(theta, One)
     /\ call.op \in {"cumulative_density", "probability_density"})
    => result = Err("ValueError", 0)

C4_Witness ==
    /\ fitted
    /\ RLt(theta, One)
    /\ call.op = "probability_density"
    /\ Len(call.U) > 1
    /\ result = Err("ValueError", 0)

\* the value x lies in the open, resp. closed, unit interval; the solver's
\* minimiser is only known to lie in its search interval [x1, x2]
InOpenUnit(x) ==
    IF IsNum(x) THEN RLt(Zero, x) /\ RLt(x, One)
    ELSE x.op = "fminbound" /\ RLt(Zero, x.args[1]) /\ RLe(x.args[2], One)
InClosedUnit(x) ==
    IF IsNum(x) THEN RLe(Zero, x) /\ RLe(x, One)
    ELSE x.op = "fminbound" /\ RLe(Zero, x.args[1]) /\ RLe(x.args[2], One)

C5_Case ==
    /\ fitted
    /\ call.op = "percent_point"
    /\ RLe(Zero, call.y) /\ RLe(call.y, One)
    /\ RLt(Zero, call.V) /\ RLt(call.V, One)

\* C5 as stated: on a fitted model, percent_point(y, v) returns a value
\* strictly inside (0, 1) for every y in [0, 1] and v in (0, 1), in the
\* theta = 1 branch and in the bounded-solver branch.  (Stated here for
\* theta >= 1 only, the Gumbel domain, which is already refuted.)
C5_PercentPointStrictlyInside ==
    (C5_Case /\ RLe(One, theta)) => (result.kind = "ok" /\ InOpenUnit(result.val))

\* C5 amended: for y in [0, 1] and v in (0, 1), at theta = 1 percent_point
\* returns y itself, a value of the closed interval [0, 1]; at theta > 1 it
\* returns the solver's minimiser over [EPSILON, 1.0]; at theta < 1 the
\* solver's objective raises the invalid-parameter-domain error.
C5_PercentPointInClosedUnit ==
    C5_Case
    => (/\ theta = One => result = Ok(call.y, 0)
        /\ RLt(One, theta)
           => (/\ result.kind = "ok"
               /\ result.val.op = "fminbound"
               /\ result.val.args[1] = EPSILON
               /\ result.val.args[2] = One)
        /\ RLt(theta, One) => RaisedError("ValueError")
        /\ result.kind = "ok" => InClosedUnit(result.val))

C5_Witness ==
    /\ C5_Case
    /\ theta = One
    /\ call.y = Zero
    /\ result = Ok(Zero, 0)

\* C6: get_theta returns 1/(1 - tau) for every tau # 1 (2.0 at tau = 0.5)
\* and the sentinel 10000 at tau = 1, never a division-by-zero error.
C6_GetTheta ==
    (call.op = "get_theta" /\ IsNum(tau))
    => (/\ result.kind = "ok"
        /\ tau # One => RMul(result.val, RSub(One, tau)) = One
        /\ tau = One => result.val = Q(10000, 1)
        /\ tau = Half => result.val = Q(2, 1))

C6_Witness ==
    /\ call.op = "get_theta"
    /\ tau = One
    /\ result = Ok(Q(10000, 1), 0)

\* C9: on a fitted model with theta = 1, partial_derivative(u, v, y) returns
\* v - y for every u, v and every offset y.
C9_PartialDerivativeAtThetaOne ==
    (fitted /\ theta = One /\ call.op = "partial_derivative")
    => (/\ result.kind = "ok"
        /\ result.val = Tup([i \in 1..Len(call.V) |-> RSub(call.V[i], call.y)], Len(call.V)))

\* C10: after fit, no evaluation operation (cumulative_density,
\* probability_density, partial_derivative, percent_point, get_theta, sample)
\* changes theta or tau, whether it returns or raises; so the result of
\* sample is determined by the fitted tau and the call's inputs alone, and a
\* repeated call with identical inputs returns the identical result.
C10_EvaluationLeavesModelUnchanged ==
    [][(fitted /\ call'.op \in EvalOps \cup {"get_theta"})
       => (/\ theta' = theta
           /\ tau' = tau
           /\ fitted'
           /\ call'.op = "sample"
              => result' = _sample([fitted |-> TRUE, tau |-> tau,
                                    theta |-> get_theta([tau |-> tau]).val],
                                   call'.v, call'.c))]_vars

C10_Witness ==
    /\ fitted
    /\ RLt(One, theta)
    /\ call.op = "sample"
    /\ result.kind = "ok"
    /\ Len(result.val) > 1

(* ---- the Gaussian marginal ---- *)

\* C7: GaussianUnivariate.fit on an empty dataset raises the empty-input
\* error and leaves name, mean and std exactly as they were, on a fresh
\* model and on a previously fitted one.
C7_EmptyFitCommitsNothing ==
    [][(call'.op = "gaussian.fit" /\ Len(call'.X) = 0)
       => (/\ result' = Err("ValueError", 0)
           /\ name' = name
           /\ mean' = mean
           /\ std' = std)]_vars

C7_Witness ==
    /\ call.op = "gaussian.fit"
    /\ Len(call.X) = 0
    /\ call.name # None
    /\ result = Err("ValueError", 0)
    /\ name = None
    /\ mean # Zero

IsPositive(x) ==
    IF IsNum(x) THEN x.n > 0 ELSE x.op = "sqrt" /\ x.args[1].n > 0

====
